---------------------------- MODULE Spec2Model ----------------------------
(***************************************************************************)
(* PetPulse API (src/server.js, first listing, lines 1-478): the /plan     *)
(* handler and its Decision Enforcer, the /tips and /confirm handlers,     *)
(* the gateway they await, the Profile Normalizer and the helpers they     *)
(* call.                                                                   *)
(*                                                                         *)
(* Encoding of JavaScript values.                                          *)
(*  - A string is a sequence of pieces.  The piece SP is a run of          *)
(*    whitespace; every other piece is text that neither starts nor ends   *)
(*    with whitespace.  "" is << >>, " a " is <<SP, "a", SP>>.             *)
(*  - A JSON value is a record [t, s, a]: t is its type tag ("undef" for   *)
(*    an absent property), s the pieces of a string (for a number, its     *)
(*    decimal rendering), a the items of an array, each item [t, s].       *)
(***************************************************************************)
EXTENDS Integers, Sequences, FiniteSets, TLC

VARIABLES
    apiKey,   \* OPENAI_API_KEY is set (read once at startup)
    pc,       \* position of the /plan handler: "idle", "awaiting", "done"
    req,      \* the request body
    up,       \* what the upstream call resolved to
    res,      \* the response sent
    gwCalls,  \* outbound calls made for this request
    calls,    \* Plan calls the caller has made in this conversation
    route,    \* the route the request was posted to
    inflight, \* requests handled concurrently: for each, the locals of
              \* its handler call [route, pc, req, up, res, gwCalls]
    prof      \* a profile and what profileBlock makes of it:
              \* [pc, p, n, block]

vars == <<apiKey, pc, req, up, res, gwCalls, calls, route, inflight, prof>>

----------------------------------------------------------------------------
(* Strings *)

SP == " "

RECURSIVE TrimLeft(_)
TrimLeft(s) == IF s # <<>> /\ Head(s) = SP THEN TrimLeft(Tail(s)) ELSE s

RECURSIVE TrimRight(_)
TrimRight(s) ==
    IF s # <<>> /\ s[Len(s)] = SP THEN TrimRight(SubSeq(s, 1, Len(s) - 1)) ELSE s

\* String.prototype.trim
Trim(s) == TrimRight(TrimLeft(s))

\* String.prototype.toUpperCase on one piece, for the pieces the model uses
\* that hold lower-case letters; every other piece of the model is unchanged
\* by it.
UpperPiece(p) ==
    CASE p = "home" -> "HOME"
      [] p = "vet_now" -> "VET_NOW"
      [] p = "monitor_24h" -> "MONITOR_24H"
      [] p = "Monitor_24h" -> "MONITOR_24H"
      [] p = "soon" -> "SOON"
      [] OTHER -> p

ToUpperCase(s) == [i \in 1..Len(s) |-> UpperPiece(s[i])]

----------------------------------------------------------------------------
(* JSON values *)

Undef == [t |-> "undef", s |-> <<>>, a |-> <<>>]
Null == [t |-> "null", s |-> <<>>, a |-> <<>>]
Str(s) == [t |-> "str", s |-> s, a |-> <<>>]
Num(s) == [t |-> "num", s |-> s, a |-> <<>>]
Arr(a) == [t |-> "arr", s |-> <<>>, a |-> a]

IStr(s) == [t |-> "str", s |-> s]
INum(s) == [t |-> "num", s |-> s]
INull == [t |-> "null", s |-> <<>>]

\* String(x) of an array item
StringOf(x) ==
    CASE x.t = "str" -> x.s
      [] x.t = "num" -> x.s
      [] x.t = "null" -> <<"null">>
      [] OTHER -> <<"undefined">>

safeText(v) == IF v.t = "str" THEN Trim(v.s) ELSE <<>>

NonEmpty(s) == s # <<>>

\* .map((x) => safeText(String(x))).map((s) => s.trim()) on one item
ItemText(x) == Trim(Trim(StringOf(x)))

asStringList(v) ==
    IF v.t = "arr"
    THEN SelectSeq([i \in 1..Len(v.a) |-> ItemText(v.a[i])], NonEmpty)
    ELSE IF v.t = "str" THEN (IF Trim(v.s) # <<>> THEN <<Trim(v.s)>> ELSE <<>>)
    ELSE <<>>

----------------------------------------------------------------------------
(* defaultPlanText: the three default-content tables.  Each text is one   *)
(* piece; the typographic apostrophes of the source are written '.        *)

VetNowTable ==
    [headline |-> <<"Seek veterinary care as soon as possible">>,
     why |-> << <<"Some patterns can be more urgent, and it may be safer to have a vet assess your pet.">>,
                <<"Getting help sooner can prevent complications if this worsens quickly.">> >>,
     do_now |-> << <<"Contact a veterinary clinic or emergency vet now and describe the symptoms clearly.">>,
                   <<"Keep your pet calm, warm, and supervised while you prepare to go.">>,
                   <<"If vomiting/diarrhea is present, bring a brief timeline (when started, how often).">> >>,
     avoid |-> << <<"Avoid giving human medications unless a veterinarian instructs you.">>,
                  <<"Avoid forcing food or water if your pet is actively vomiting or struggling to swallow.">> >>,
     red_flags |-> << <<"Collapse, severe weakness, or trouble breathing">>,
                      <<"Repeated vomiting or inability to keep water down">>,
                      <<"Blood in vomit or stool, or obvious severe pain">> >>]

HomeTable ==
    [headline |-> <<"Home care may be appropriate for now">>,
     why |-> << <<"No clear urgent red flags stand out from what you shared.">>,
                <<"Supportive care and close observation may help while you monitor for changes.">> >>,
     do_now |-> << <<"Ensure fresh water is available; offer small amounts more often if needed.">>,
                   <<"Provide a quiet, comfortable place to rest and keep activity low.">>,
                   <<"Track appetite, energy, bathroom changes, and any vomiting/diarrhea.">> >>,
     avoid |-> << <<"Avoid rich treats/new foods while symptoms are ongoing.">>,
                  <<"Avoid human medications unless a veterinarian instructs you.">> >>,
     red_flags |-> << <<"Symptoms worsen or new symptoms appear">>,
                      <<"Your pet becomes very lethargic, painful, or won't drink">>,
                      <<"Any blood in vomit/stool or repeated vomiting">> >>]

MonitorTable ==
    [headline |-> <<"Monitor closely over the next 24 hours">>,
     why |-> << <<"There don't appear to be urgent red flags right now, but close monitoring is a cautious next step.">>,
                <<"If anything worsens or doesn't improve, checking with a vet is the safest move.">> >>,
     do_now |-> << <<"Ensure your pet has access to fresh water and a calm resting area.">>,
                   <<"Monitor appetite, energy, and bathroom habits; note any vomiting/diarrhea.">>,
                   <<"Reassess within 24 hours (sooner if red flags appear).">> >>,
     avoid |-> << <<"Avoid giving human medications unless directed by a veterinarian.">>,
                  <<"Avoid strenuous activity until your pet seems back to normal.">> >>,
     red_flags |-> << <<"Repeated vomiting or inability to keep water down">>,
                      <<"Blood in vomit or stool">>,
                      <<"Severe lethargy, collapse, or signs of significant pain">>,
                      <<"Trouble breathing, bloated abdomen, or repeated unproductive retching">> >>]

\* defaultPlanText that ignores the urgency
defaultPlanText_AlwaysMonitor(urgency) == MonitorTable

\* defaultPlanText(urgency), urgency a string
defaultPlanText(urgency) ==
    LET u == ToUpperCase(Trim(urgency)) IN
    IF u = <<"VET_NOW">> THEN VetNowTable
    ELSE IF u = <<"HOME">> THEN HomeTable
    ELSE MonitorTable

DefaultDisclaimer ==
    <<"This is not a diagnosis. If symptoms worsen or red flags appear, contact a veterinarian.">>

DefaultReason == <<"A bit more detail will help.">>

DefaultQuestionText == <<"Please share a bit more detail.">>

----------------------------------------------------------------------------
(* sanitizeQuestions.  The questions property of the generator's outcome   *)
(* is [t, q]: t = "arr" with the items q, or another tag with q = << >>.   *)
(* An item is [obj, id, text, type, options]: obj = FALSE is a null item,  *)
(* whose properties all read undefined.                                    *)

QUndef == [t |-> "undef", q |-> <<>>]
QOther == [t |-> "str", q |-> <<>>]
QArr(q) == [t |-> "arr", q |-> q]

QuestionTypes == { <<"yes_no">>, <<"single_choice">>, <<"short_text">> }

\* `q_${i + 1}`, i the 0-based index: FallbackId(n) is the id of the n-th item
FallbackId(n) == <<"q_" \o ToString(n)>>

\* q?.f
QField(q, f) == IF q.obj THEN q[f] ELSE Undef

\* safeText on one option
OptionText(o) == safeText([t |-> o.t, s |-> o.s, a |-> <<>>])

\* sanitizeOne with no fallback for a blank id or text and no check of type
sanitizeOne_NoFallback(q, n) ==
    [id |-> safeText(QField(q, "id")),
     text |-> safeText(QField(q, "text")),
     type |-> safeText(QField(q, "type")),
     options |-> IF QField(q, "options").t = "arr"
                 THEN SelectSeq([i \in 1..Len(QField(q, "options").a) |->
                                    OptionText(QField(q, "options").a[i])], NonEmpty)
                 ELSE <<>>]

sanitizeOne(q, n) ==
    [id |-> IF safeText(QField(q, "id")) # <<>>
            THEN safeText(QField(q, "id")) ELSE FallbackId(n),
     text |-> IF safeText(QField(q, "text")) # <<>>
              THEN safeText(QField(q, "text")) ELSE DefaultQuestionText,
     type |-> IF QField(q, "type").t = "str" /\ QField(q, "type").s \in QuestionTypes
              THEN QField(q, "type").s ELSE <<"short_text">>,
     options |-> IF QField(q, "options").t = "arr"
                 THEN SelectSeq([i \in 1..Len(QField(q, "options").a) |->
                                    OptionText(QField(q, "options").a[i])], NonEmpty)
                 ELSE <<>>]

sanitizeQuestions(raw) ==
    IF raw.t # "arr" THEN <<>>
    ELSE [i \in 1..Len(raw.q) |-> sanitizeOne(raw.q[i], i)]

\* Array.prototype.slice(0, n)
Slice0(q, n) == SubSeq(q, 1, IF Len(q) < n THEN Len(q) ELSE n)

MaxQuestions == 3

----------------------------------------------------------------------------
(* The request body, the generator's outcome, the response *)

\* data?.f: a property of the parsed outcome; null and non-object JSON
\* values have none.
Field(data, f) == IF data.k = "obj" THEN data[f] ELSE Undef

NoRes ==
    [status |-> 0, result_type |-> "", error |-> "",
     urgency |-> <<>>, headline |-> <<>>, why |-> <<>>, do_now |-> <<>>,
     avoid |-> <<>>, red_flags |-> <<>>, disclaimer |-> <<>>,
     selected_issue_title |-> <<>>, reason |-> <<>>, questions |-> <<>>]

\* res.status(code).json({ error })
ErrorRes(code, msg) == [NoRes EXCEPT !.status = code, !.error = msg]

\* round || 1, then Number(...): [nan, n]
Falsy(v) ==
    \/ v.t \in {"undef", "null"}
    \/ v.t = "num" /\ v.n = 0
    \/ v.t = "str" /\ v.s = <<>>
    \/ v.t = "bool" /\ v.n = 0

\* Number(string): the numeric literals the model uses; any other text is NaN
StringToNumber(s) ==
    LET x == Trim(s) IN
    CASE x = <<>> -> [nan |-> FALSE, n |-> 0]
      [] x = <<"0">> -> [nan |-> FALSE, n |-> 0]
      [] x = <<"1">> -> [nan |-> FALSE, n |-> 1]
      [] x = <<"2">> -> [nan |-> FALSE, n |-> 2]
      [] x = <<"3">> -> [nan |-> FALSE, n |-> 3]
      [] OTHER -> [nan |-> TRUE, n |-> 0]

ToNumber(v) ==
    CASE v.t = "num" -> [nan |-> FALSE, n |-> v.n]
      [] v.t = "bool" -> [nan |-> FALSE, n |-> v.n]
      [] v.t = "null" -> [nan |-> FALSE, n |-> 0]
      [] v.t = "str" -> StringToNumber(v.s)
      [] OTHER -> [nan |-> TRUE, n |-> 0]

\* const r = Number(round || 1)
RoundOf(round) == IF Falsy(round) THEN [nan |-> FALSE, n |-> 1] ELSE ToNumber(round)

\* [1, 2].includes(r)
ValidRound(r) == ~r.nan /\ r.n \in {1, 2}

----------------------------------------------------------------------------
(* app.post("/plan"): the Decision Enforcer *)

\* NeedMoreInfoAllowed without the test of the questions
NeedMoreInfoAllowed_NoQuestions(r, cleanQs) == r.n = 1

\* NeedMoreInfoAllowed without the round test
NeedMoreInfoAllowed_AnyRound(r, cleanQs) == Len(cleanQs) > 0

\* if (r === 1 && cleanQs.length > 0)
NeedMoreInfoAllowed(r, cleanQs) == r.n = 1 /\ Len(cleanQs) > 0

\* NeedMoreInfoRes with the generator's reason and no default
NeedMoreInfoRes_NoDefaultReason(issueTitle, data, cleanQs) ==
    [NoRes EXCEPT
        !.status = 200,
        !.result_type = "NEED_MORE_INFO",
        !.selected_issue_title = issueTitle,
        !.reason = safeText(data.reason),
        !.questions = Slice0(cleanQs, MaxQuestions)]

\* NeedMoreInfoRes echoing the generator's selected_issue_title
NeedMoreInfoRes_GeneratorTitle(issueTitle, data, cleanQs) ==
    [NoRes EXCEPT
        !.status = 200,
        !.result_type = "NEED_MORE_INFO",
        !.selected_issue_title = safeText(data.selected_issue_title),
        !.reason = IF safeText(data.reason) # <<>>
                   THEN safeText(data.reason) ELSE DefaultReason,
        !.questions = Slice0(cleanQs, MaxQuestions)]

\* the NEED_MORE_INFO response
NeedMoreInfoRes(issueTitle, data, cleanQs) ==
    [NoRes EXCEPT
        !.status = 200,
        !.result_type = "NEED_MORE_INFO",
        !.selected_issue_title = issueTitle,
        !.reason = IF safeText(data.reason) # <<>>
                   THEN safeText(data.reason) ELSE DefaultReason,
        !.questions = Slice0(cleanQs, MaxQuestions)]

\* const urgency = safeText(data?.urgency).toUpperCase() || "MONITOR_24H"
PlanUrgency(data) ==
    LET u == ToUpperCase(safeText(Field(data, "urgency"))) IN
    IF u # <<>> THEN u ELSE <<"MONITOR_24H">>

\* safeText(x) || fallback
HealText(v, fallback) == IF safeText(v) # <<>> THEN safeText(v) ELSE fallback

\* HealList that never falls back
HealList_NoDefault(list, fallback) == list

\* HealList that discards the generator's list
HealList_AlwaysDefault(list, fallback) == fallback

\* list.length ? list : fallback
HealList(list, fallback) == IF Len(list) # 0 THEN list ELSE fallback

\* the PLAN response
NormalizePlan(data) ==
    LET urgency == PlanUrgency(data)
        defaults == defaultPlanText(urgency)
        why == asStringList(Field(data, "why"))
        doNow == asStringList(Field(data, "do_now"))
        avoid == asStringList(Field(data, "avoid"))
        redFlags == asStringList(Field(data, "red_flags"))
    IN  [NoRes EXCEPT
            !.status = 200,
            !.result_type = "PLAN",
            !.urgency = urgency,
            !.headline = HealText(Field(data, "headline"), defaults.headline),
            !.why = HealList(why, defaults.why),
            !.do_now = HealList(doNow, defaults.do_now),
            !.avoid = HealList(avoid, defaults.avoid),
            !.red_flags = HealList(redFlags, defaults.red_flags),
            !.disclaimer = HealText(Field(data, "disclaimer"), DefaultDisclaimer)]

\* what the handler sends once the gateway has returned data
Enforce(issueTitle, r, data) ==
    IF /\ Field(data, "result_type") = Str(<<"NEED_MORE_INFO">>)
       /\ NeedMoreInfoAllowed(r, sanitizeQuestions(data.questions))
    THEN NeedMoreInfoRes(issueTitle, data, sanitizeQuestions(data.questions))
    ELSE NormalizePlan(data)

----------------------------------------------------------------------------
(* openaiJsonObject *)

UpstreamFailures ==
    {"transport_error",   \* fetch rejects
     "http_error",        \* !res.ok
     "bad_envelope",      \* JSON.parse(text) throws
     "no_output_text",    \* out is undefined: JSON.parse(out) throws
     "bad_output"}        \* out is not JSON: JSON.parse(out) throws

\* mustEnv() throws
mustEnvThrows(key) == ~key

\* normalizeProfile(p) reads p.petName: a TypeError when p is null
profileBlockThrows(p) == p.t = "null"

\* the rest of openaiJsonObject, from what fetch resolved to
openaiJsonObjectThrows(u) == u.kind \in UpstreamFailures

----------------------------------------------------------------------------
(* Inputs: what a caller can post and what the generator can return *)

RUndef == [t |-> "undef", n |-> 0, s |-> <<>>]
RNull == [t |-> "null", n |-> 0, s |-> <<>>]
RNum(n) == [t |-> "num", n |-> n, s |-> <<>>]
RStr(s) == [t |-> "str", n |-> 0, s |-> s]
RBool(b) == [t |-> "bool", n |-> IF b THEN 1 ELSE 0, s |-> <<>>]

MaxRound == 3

Rounds ==
    {RUndef, RNull, RBool(FALSE), RBool(TRUE), RStr(<<>>), RStr(<<"2">>),
     RStr(<<"abc">>)} \cup {RNum(n) : n \in -1..MaxRound}

SymptomValues ==
    {Undef, Num(<<"5">>), Str(<<>>), Str(<<SP>>),
     Str(<<SP, "vomiting since this morning", SP>>)}

IssueTitleValues == {Undef, Str(<<SP>>), Str(<<SP, "Upset stomach (possible)">>)}

\* profile: absent, which the default parameter turns into {}, or null
ProfileValues == {Undef, Null}

\* req.body
Requests ==
    [symptoms : SymptomValues, selected_issue_title : IssueTitleValues,
     round : Rounds, profile : ProfileValues]

\* no profile is being rendered
NoProf == [pc |-> "none"]

NoReq ==
    [symptoms |-> Undef, selected_issue_title |-> Undef, round |-> RUndef,
     profile |-> Undef]

\* A parsed outcome that is null or not an object has no properties.
Bare(k) ==
    [k |-> k, result_type |-> Undef, urgency |-> Undef, headline |-> Undef,
     why |-> Undef, do_now |-> Undef, avoid |-> Undef, red_flags |-> Undef,
     disclaimer |-> Undef, reason |-> Undef, selected_issue_title |-> Undef,
     questions |-> QUndef]

UrgencyValues ==
    {Undef, Num(<<"3">>), Str(<<"HOME">>), Str(<<"MONITOR_24H">>),
     Str(<<SP, "vet_now", SP>>), Str(<<"SOON">>)}

\* <<headline, disclaimer>>
TextValues ==
    { <<Undef, Str(<<"Ask a vet if unsure", SP>>)>>,
      <<Str(<<SP, "Rest and watch", SP>>), Undef>>,
      <<Str(<<"Rest and watch">>), Str(<<"Ask a vet if unsure">>)>>,
      <<Str(<<SP>>), Num(<<"0">>)>> }

ListFields == {"why", "do_now", "avoid", "red_flags"}

\* A list the generator filled as asked, per field
GoodList(f) ==
    CASE f = "why" -> Arr(<<IStr(<<"w1">>), IStr(<<"w2">>)>>)
      [] f = "do_now" -> Arr(<<IStr(<<"d1">>), IStr(<<"d2">>), IStr(<<"d3">>)>>)
      [] f = "avoid" -> Arr(<<IStr(<<"a1">>), IStr(<<"a2">>)>>)
      [] f = "red_flags" -> Arr(<<IStr(<<"r1">>), IStr(<<"r2">>), IStr(<<"r3">>)>>)

\* Items of a list longer than any maximum of the PLAN shape
LongLen == 7

\* Lists the generator got wrong: absent, empty, blank items only, a bare
\* string, a non-array, one item, items to trim and stringify, too many items
OddLists ==
    {Undef,
     Arr(<<>>),
     Arr(<<IStr(<<SP>>), IStr(<<>>)>>),
     Str(<<SP, "solo", SP>>),
     Num(<<"5">>),
     Arr(<<IStr(<<"one">>)>>),
     Arr(<<IStr(<<SP, "pad", SP>>), IStr(<<SP>>), INum(<<"7">>), INull>>),
     Arr([i \in 1..LongLen |-> IStr(<<"item" \o ToString(i)>>)])}

AllGood == [f \in ListFields |-> GoodList(f)]

\* every field odd in the same way, or one field odd and the others good
ListValues ==
    {AllGood}
    \cup {[f \in ListFields |-> l] : l \in OddLists}
    \cup {[AllGood EXCEPT ![f] = l] : f \in ListFields, l \in OddLists}

PlanData(rt, u, tx, ls) ==
    [Bare("obj") EXCEPT
        !.result_type = rt, !.urgency = u, !.headline = tx[1],
        !.disclaimer = tx[2], !.why = ls["why"], !.do_now = ls["do_now"],
        !.avoid = ls["avoid"], !.red_flags = ls["red_flags"]]

Question(id, text, type, options) ==
    [obj |-> TRUE, id |-> id, text |-> text, type |-> type, options |-> options]

NullQuestion ==
    [obj |-> FALSE, id |-> Undef, text |-> Undef, type |-> Undef, options |-> Undef]

QuestionValues ==
    {QUndef, QOther, QArr(<<>>),
     QArr(<<Question(Str(<<"q1">>), Str(<<"Any blood?">>), Str(<<"yes_no">>), Arr(<<>>))>>),
     QArr(<<Question(Str(<<SP, "q1">>), Str(<<"How often?", SP>>), Str(<<"single_choice">>),
                     Arr(<<IStr(<<SP, "once">>), IStr(<<SP>>), IStr(<<"often">>)>>)),
            Question(Str(<<"q2">>), Str(<<"Any blood?">>), Str(<<"yes_no">>), Arr(<<>>)),
            Question(Str(<<"q3">>), Str(<<"Since when?">>), Str(<<"short_text">>), Arr(<<>>))>>),
     QArr(<<NullQuestion,
            Question(Undef, Str(<<"Any blood?">>), Str(<<"YES_NO">>), Undef),
            Question(Str(<<"q3">>), Str(<<SP>>), Undef, Arr(<<INum(<<"4">>), IStr(<<"often">>)>>)),
            Question(Str(<<"q4">>), Str(<<"Since when?">>), Str(<<"short_text">>), Arr(<<>>))>>)}

ReasonValues == {Undef, Str(<<SP>>), Str(<<SP, "Timing is unclear", SP>>)}

GeneratorTitles ==
    {Undef, Str(<<"Another issue">>), Str(<<"Upset stomach (possible)">>)}

NeedMoreInfoData(u, tx, ls, qs, rs, ti) ==
    [PlanData(Str(<<"NEED_MORE_INFO">>), u, tx, ls) EXCEPT
        !.questions = qs, !.reason = rs, !.selected_issue_title = ti]

\* what JSON.parse(out) can be
GenData ==
    {Bare("null"), Bare("other")}
    \cup {PlanData(rt, u, tx, ls) :
            rt \in {Undef, Str(<<"PLAN">>), Str(<<"ERROR">>)},
            u \in UrgencyValues, tx \in TextValues, ls \in ListValues}
    \cup {NeedMoreInfoData(u, tx, ls, qs, rs, ti) :
            u \in {Undef, Str(<<"SOON">>), Str(<<"HOME">>)},
            tx \in TextValues,
            ls \in {AllGood} \cup {[f \in ListFields |-> l] : l \in {Undef, Arr(<<IStr(<<"one">>)>>)}},
            qs \in QuestionValues, rs \in ReasonValues, ti \in GeneratorTitles}

NoUp == [kind |-> "none", data |-> Bare("null")]

\* what the upstream call can resolve to
Upstreams ==
    {[kind |-> k, data |-> Bare("null")] : k \in UpstreamFailures}
    \cup {[kind |-> "ok", data |-> d] : d \in GenData}

----------------------------------------------------------------------------
(* app.post("/plan"): the handler, from the request to the await and from  *)
(* the gateway's result to the response                                    *)

\* the 400 the validation answers with, "" when the body passes
ValidationError(b) ==
    IF safeText(b.symptoms) = <<>> THEN "Missing symptoms"
    ELSE IF safeText(b.selected_issue_title) = <<>> THEN "Missing selected_issue_title"
    ELSE IF ~ValidRound(RoundOf(b.round)) THEN "round must be 1 or 2"
    ELSE ""

Init ==
    /\ apiKey \in BOOLEAN
    /\ pc = "idle"
    /\ req = NoReq
    /\ up = NoUp
    /\ res = NoRes
    /\ gwCalls = 0
    /\ calls = 0
    /\ route = ""
    /\ inflight = <<>>
    /\ prof = NoProf

\* the body fails validation: 400, the gateway is not called
Reject(b) ==
    /\ ValidationError(b) # ""
    /\ req' = b
    /\ calls' = calls + 1
    /\ res' = ErrorRes(400, ValidationError(b))
    /\ pc' = "done"
    /\ gwCalls' = 0
    /\ up' = NoUp
    /\ route' = "/plan"
    /\ UNCHANGED <<apiKey, inflight, prof>>

\* profileBlock(profile) throws while the prompt is built, before the
\* gateway is entered: the catch answers 500
PromptThrows(b) ==
    /\ ValidationError(b) = ""
    /\ profileBlockThrows(b.profile)
    /\ req' = b
    /\ calls' = calls + 1
    /\ res' = ErrorRes(500, "TypeError")
    /\ pc' = "done"
    /\ gwCalls' = 0
    /\ up' = NoUp
    /\ route' = "/plan"
    /\ UNCHANGED <<apiKey, inflight, prof>>

\* mustEnv() throws inside openaiJsonObject: the catch answers 500
NoKey(b) ==
    /\ ValidationError(b) = ""
    /\ ~profileBlockThrows(b.profile)
    /\ mustEnvThrows(apiKey)
    /\ req' = b
    /\ calls' = calls + 1
    /\ res' = ErrorRes(500, "Missing OPENAI_API_KEY")
    /\ pc' = "done"
    /\ gwCalls' = 0
    /\ up' = NoUp
    /\ route' = "/plan"
    /\ UNCHANGED <<apiKey, inflight, prof>>

\* the handler reaches await fetch(...)
Await(b) ==
    /\ ValidationError(b) = ""
    /\ ~profileBlockThrows(b.profile)
    /\ ~mustEnvThrows(apiKey)
    /\ req' = b
    /\ calls' = calls + 1
    /\ res' = NoRes
    /\ pc' = "awaiting"
    /\ gwCalls' = 1
    /\ up' = NoUp
    /\ route' = "/plan"
    /\ UNCHANGED <<apiKey, inflight, prof>>

PlanReject == pc = "idle" /\ \E b \in Requests : Reject(b)

PlanPromptThrows == pc = "idle" /\ \E b \in Requests : PromptThrows(b)

PlanNoKey == pc = "idle" /\ \E b \in Requests : NoKey(b)

PlanAwait == pc = "idle" /\ \E b \in Requests : Await(b)

\* openaiJsonObject throws: the catch answers 500
GatewayThrows ==
    /\ pc = "awaiting"
    /\ route = "/plan"
    /\ \E u \in Upstreams :
        /\ openaiJsonObjectThrows(u)
        /\ up' = u
        /\ res' = ErrorRes(500, u.kind)
    /\ pc' = "done"
    /\ UNCHANGED <<apiKey, req, gwCalls, calls, route, inflight, prof>>

\* openaiJsonObject returns data: enforcement, then the response
GatewayReturns ==
    /\ pc = "awaiting"
    /\ route = "/plan"
    /\ \E u \in Upstreams :
        /\ ~openaiJsonObjectThrows(u)
        /\ up' = u
        /\ res' = Enforce(safeText(req.selected_issue_title), RoundOf(req.round), u.data)
    /\ pc' = "done"
    /\ UNCHANGED <<apiKey, req, gwCalls, calls, route, inflight, prof>>

Next ==
    \/ PlanReject \/ PlanPromptThrows \/ PlanNoKey \/ PlanAwait
    \/ GatewayThrows \/ GatewayReturns

Spec == Init /\ [][Next]_vars

----------------------------------------------------------------------------
(* A conversation: the caller starts at round 1 and calls again, with the  *)
(* next round, only after a NEED_MORE_INFO response.                       *)

CallerTurn ==
    \/ pc = "idle" /\ calls = 0
    \/ pc = "done" /\ res.result_type = "NEED_MORE_INFO" /\ calls < MaxRound

ProtocolRequests ==
    {[symptoms |-> Str(<<SP, "vomiting since this morning", SP>>),
      selected_issue_title |-> Str(<<SP, "Upset stomach (possible)">>),
      round |-> r, profile |-> Undef] :
        r \in {RNum(calls + 1)} \cup (IF calls = 0 THEN {RUndef} ELSE {})}

SessionNoKey == CallerTurn /\ \E b \in ProtocolRequests : NoKey(b)

SessionAwait == CallerTurn /\ \E b \in ProtocolRequests : Await(b)

SessionNext == SessionNoKey \/ SessionAwait \/ GatewayThrows \/ GatewayReturns

SessionSpec == Init /\ [][SessionNext]_vars

----------------------------------------------------------------------------
(* app.post("/tips") and app.post("/confirm").  Both call openaiJson; the  *)
(* response is { error } with a status, or the JSON body res.json sends.   *)

\* openaiJson without the res.ok check
openaiJsonThrows_IgnoresStatus(u) == u.kind \in UpstreamFailures \ {"http_error"}

\* openaiJson, from what fetch resolved to: the same throw sites as
\* openaiJsonObject
openaiJsonThrows(u) == u.kind \in UpstreamFailures

NoBody == [k |-> "none"]

\* res.status(code).json({ error })
StageError(code, msg) == [status |-> code, error |-> msg, data |-> NoBody]

\* res.json(data)
StageJson(data) == [status |-> 200, error |-> "", data |-> data]

\* An item of data.issues is [k, id, title, rank]: k = "obj" an object with
\* its id, its title (which stands for every property the handler does not
\* name) and its rank value, k = "null" a null item, k = "num" a number
\* item, which has no properties.
Issue(id, rank) ==
    [k |-> "obj", id |-> id, title |-> "title of " \o id, rank |-> rank]

NullIssue == [k |-> "null", id |-> "", title |-> "", rank |-> RUndef]

\* data.issues is [t, q]: t = "arr" with the items q, or another tag
IssuesArr(q) == [t |-> "arr", q |-> q]

IssuesUndef == [t |-> "undef", q |-> <<>>]

\* the parsed outcome of /tips: [k, title, intro, disclaimer, issues]
TipsData(issues) ==
    [k |-> "obj", title |-> Str(<<"Possible issues">>),
     intro |-> Str(<<SP, "Based on your notes", SP>>), disclaimer |-> Undef,
     issues |-> issues]

TipsBare(k) ==
    [k |-> k, title |-> Undef, intro |-> Undef, disclaimer |-> Undef,
     issues |-> IssuesUndef]

MaxIssues == 5

\* Number(it.rank) || 999: 999 for a rank that is NaN or 0
RankKey(it) ==
    IF ToNumber(it.rank).nan \/ ToNumber(it.rank).n = 0
    THEN 999 ELSE ToNumber(it.rank).n

\* the comparator reads a.rank: a TypeError when a is null
ComparatorThrows(q) == Len(q) >= 2 /\ \E i \in 1..Len(q) : q[i].k = "null"

\* x put after the items of a sorted array whose key is not greater
InsertByRank(sorted, x) ==
    LET NotAfter(y) == RankKey(y) <= RankKey(x)
        After(y) == RankKey(y) > RankKey(x)
    IN  SelectSeq(sorted, NotAfter) \o <<x>> \o SelectSeq(sorted, After)

\* sort((a, b) => (Number(a.rank) || 999) - (Number(b.rank) || 999)),
\* which is stable
RECURSIVE SortByRank(_)
SortByRank(q) ==
    IF q = <<>> THEN <<>>
    ELSE InsertByRank(SortByRank(SubSeq(q, 1, Len(q) - 1)), q[Len(q)])

\* the rank the generator returned, kept
Rerank_Kept(q) ==
    [i \in 1..Len(q) |->
        [k |-> "obj", id |-> q[i].id, title |-> q[i].title, rank |-> q[i].rank]]

\* items rebuilt from id and rank alone
Rerank_IdOnly(q) ==
    [i \in 1..Len(q) |-> [k |-> "obj", id |-> q[i].id, title |-> "", rank |-> RNum(i)]]

\* map((it, idx) => ({ ...it, rank: idx + 1 }))
Rerank(q) ==
    [i \in 1..Len(q) |->
        [k |-> "obj", id |-> q[i].id, title |-> q[i].title, rank |-> RNum(i)]]

\* the defensive enforcement applies to an issues property that is an array
EnforcesIssues(data) == data.k = "obj" /\ data.issues.t = "arr"

EnforceIssuesThrows(data) ==
    EnforcesIssues(data) /\ ComparatorThrows(Slice0(data.issues.q, MaxIssues))

EnforceIssues(data) ==
    IF EnforcesIssues(data)
    THEN [data EXCEPT
            !.issues = IssuesArr(Rerank(SortByRank(Slice0(data.issues.q, MaxIssues))))]
    ELSE data

\* the parsed outcome of /confirm: [k, selected_issue_title, questions]
ConfirmBare(k) == [k |-> k, selected_issue_title |-> Undef, questions |-> QUndef]

\* the 400 of /tips and of /confirm, "" when the body passes
\* the check without the trim: only whitespace passes
TipsValidationError_NoTrim(b) ==
    IF b.symptoms.t # "str" \/ b.symptoms.s = <<>> THEN "Missing symptoms" ELSE ""

TipsValidationError(b) ==
    IF safeText(b.symptoms) = <<>> THEN "Missing symptoms" ELSE ""

ConfirmValidationError(b) ==
    IF safeText(b.symptoms) = <<>> THEN "Missing symptoms" ELSE ""

(* Inputs of /tips and /confirm *)

TipsRequests ==
    [symptoms : SymptomValues, selected_issue_title : {Undef}, round : {RUndef},
     profile : ProfileValues]

ConfirmRequests ==
    [symptoms : SymptomValues, selected_issue_title : IssueTitleValues,
     round : {RUndef}, profile : ProfileValues]

\* every array of up to MaxShort issues is enumerated
MaxShort == 3

IssueId(i) == "issue_" \o ToString(i)

\* issues with the given ranks, in the generator's order
IssuesRanked(ranks) == IssuesArr([i \in 1..Len(ranks) |-> Issue(IssueId(i), ranks[i])])

NumRanks(ns) == [i \in 1..Len(ns) |-> RNum(ns[i])]

\* absent, not an array, every array of up to MaxShort issues, longer
\* arrays (ranked in order, in reverse, with 0 first, with the lowest rank
\* after position 5, more than 5 in order) and arrays with a null or a
\* number item
IssuesValues ==
    {IssuesUndef, [t |-> "str", q |-> <<>>]}
    \cup {IssuesRanked(r) :
             r \in UNION {[1..n -> {RUndef, RNum(0), RNum(1), RNum(2), RNum(-1),
                                    RStr(<<"2">>)}] : n \in 0..MaxShort}}
    \cup {IssuesRanked(NumRanks(ns)) :
             ns \in { <<1, 2, 3, 4>>, <<1, 2, 3, 4, 5>>, <<5, 4, 3, 2, 1>>,
                      <<0, 1, 2, 3, 4>>, <<1, 1, 3, 3, 7>>, <<2, 3, 4, 5, 6, 1>>,
                      <<1, 2, 3, 4, 5, 6>>, <<1, 2, 3, 4, 5, 6, 7>> }}
    \cup {IssuesArr(<<NullIssue>>),
          IssuesArr(<<[k |-> "num", id |-> "", title |-> "", rank |-> RUndef],
                      Issue(IssueId(2), RNum(1)), Issue(IssueId(3), RNum(2))>>),
          IssuesArr(<<Issue(IssueId(1), RNum(1)), NullIssue, Issue(IssueId(3), RNum(2))>>)}

TipsGenData == {TipsBare("null"), TipsBare("other")} \cup {TipsData(i) : i \in IssuesValues}

TipsUpstreams ==
    {[kind |-> k, data |-> TipsBare("null")] : k \in UpstreamFailures}
    \cup {[kind |-> "ok", data |-> d] : d \in TipsGenData}

\* null, a non-object, or an object with a title and questions: those of
\* QuestionValues and five well-formed ones
ConfirmGenData ==
    {ConfirmBare("null"), ConfirmBare("other")}
    \cup {[k |-> "obj", selected_issue_title |-> t, questions |-> q] :
             t \in GeneratorTitles,
             q \in QuestionValues
                   \cup {QArr([i \in 1..5 |->
                             Question(Str(<<"q" \o ToString(i)>>), Str(<<"Any blood?">>),
                                      Str(<<"yes_no">>), Arr(<<>>))])}}

ConfirmUpstreams ==
    {[kind |-> k, data |-> ConfirmBare("null")] : k \in UpstreamFailures}
    \cup {[kind |-> "ok", data |-> d] : d \in ConfirmGenData}

(* The handlers *)

\* the body fails validation: 400, the gateway is not called
Post400(rt, b, err) ==
    /\ err # ""
    /\ req' = b
    /\ res' = StageError(400, err)
    /\ pc' = "done"
    /\ gwCalls' = 0
    /\ up' = NoUp
    /\ route' = rt
    /\ UNCHANGED <<apiKey, calls, inflight, prof>>

\* profileBlock(profile) throws while the prompt is built: the catch
\* answers 500
PostPromptThrows(rt, b, err) ==
    /\ err = ""
    /\ profileBlockThrows(b.profile)
    /\ req' = b
    /\ res' = StageError(500, "TypeError")
    /\ pc' = "done"
    /\ gwCalls' = 0
    /\ up' = NoUp
    /\ route' = rt
    /\ UNCHANGED <<apiKey, calls, inflight, prof>>

\* mustEnv() throws inside openaiJson: the catch answers 500
PostNoKey(rt, b, err) ==
    /\ err = ""
    /\ ~profileBlockThrows(b.profile)
    /\ mustEnvThrows(apiKey)
    /\ req' = b
    /\ res' = StageError(500, "Missing OPENAI_API_KEY")
    /\ pc' = "done"
    /\ gwCalls' = 0
    /\ up' = NoUp
    /\ route' = rt
    /\ UNCHANGED <<apiKey, calls, inflight, prof>>

\* the handler reaches await fetch(...)
PostAwait(rt, b, err) ==
    /\ err = ""
    /\ ~profileBlockThrows(b.profile)
    /\ ~mustEnvThrows(apiKey)
    /\ req' = b
    /\ res' = NoRes
    /\ pc' = "awaiting"
    /\ gwCalls' = 1
    /\ up' = NoUp
    /\ route' = rt
    /\ UNCHANGED <<apiKey, calls, inflight, prof>>

TipsReject ==
    pc = "idle" /\ \E b \in TipsRequests : Post400("/tips", b, TipsValidationError(b))

TipsPromptThrows ==
    pc = "idle" /\ \E b \in TipsRequests :
        PostPromptThrows("/tips", b, TipsValidationError(b))

TipsNoKey ==
    pc = "idle" /\ \E b \in TipsRequests : PostNoKey("/tips", b, TipsValidationError(b))

TipsAwait ==
    pc = "idle" /\ \E b \in TipsRequests : PostAwait("/tips", b, TipsValidationError(b))

\* a catch that calls the gateway again
TipsGatewayThrows_Retries ==
    /\ pc = "awaiting"
    /\ route = "/tips"
    /\ \E u \in TipsUpstreams : openaiJsonThrows(u) /\ up' = u
    /\ gwCalls' = gwCalls + 1
    /\ UNCHANGED <<apiKey, pc, req, res, calls, route, inflight, prof>>

\* openaiJson throws: the catch answers 500
TipsGatewayThrows ==
    /\ pc = "awaiting"
    /\ route = "/tips"
    /\ \E u \in TipsUpstreams :
        /\ openaiJsonThrows(u)
        /\ up' = u
        /\ res' = StageError(500, u.kind)
    /\ pc' = "done"
    /\ UNCHANGED <<apiKey, req, gwCalls, calls, route, inflight, prof>>

\* openaiJson returns, the comparator throws on a null item: the catch
\* answers 500
TipsSortThrows ==
    /\ pc = "awaiting"
    /\ route = "/tips"
    /\ \E u \in TipsUpstreams :
        /\ ~openaiJsonThrows(u)
        /\ EnforceIssuesThrows(u.data)
        /\ up' = u
        /\ res' = StageError(500, "TypeError")
    /\ pc' = "done"
    /\ UNCHANGED <<apiKey, req, gwCalls, calls, route, inflight, prof>>

\* openaiJson returns data: defensive enforcement, then res.json(data)
TipsReturns ==
    /\ pc = "awaiting"
    /\ route = "/tips"
    /\ \E u \in TipsUpstreams :
        /\ ~openaiJsonThrows(u)
        /\ ~EnforceIssuesThrows(u.data)
        /\ up' = u
        /\ res' = StageJson(EnforceIssues(u.data))
    /\ pc' = "done"
    /\ UNCHANGED <<apiKey, req, gwCalls, calls, route, inflight, prof>>

TipsNext ==
    \/ TipsReject \/ TipsPromptThrows \/ TipsNoKey \/ TipsAwait
    \/ TipsGatewayThrows \/ TipsSortThrows \/ TipsReturns

TipsSpec == Init /\ [][TipsNext]_vars

ConfirmReject ==
    pc = "idle" /\ \E b \in ConfirmRequests :
        Post400("/confirm", b, ConfirmValidationError(b))

ConfirmPromptThrows ==
    pc = "idle" /\ \E b \in ConfirmRequests :
        PostPromptThrows("/confirm", b, ConfirmValidationError(b))

ConfirmNoKey ==
    pc = "idle" /\ \E b \in ConfirmRequests :
        PostNoKey("/confirm", b, ConfirmValidationError(b))

ConfirmAwait ==
    pc = "idle" /\ \E b \in ConfirmRequests :
        PostAwait("/confirm", b, ConfirmValidationError(b))

\* openaiJson throws: the catch answers 500
ConfirmGatewayThrows ==
    /\ pc = "awaiting"
    /\ route = "/confirm"
    /\ \E u \in ConfirmUpstreams :
        /\ openaiJsonThrows(u)
        /\ up' = u
        /\ res' = StageError(500, u.kind)
    /\ pc' = "done"
    /\ UNCHANGED <<apiKey, req, gwCalls, calls, route, inflight, prof>>

\* openaiJson returns data: res.json(data)
ConfirmReturns ==
    /\ pc = "awaiting"
    /\ route = "/confirm"
    /\ \E u \in ConfirmUpstreams :
        /\ ~openaiJsonThrows(u)
        /\ up' = u
        /\ res' = StageJson(u.data)
    /\ pc' = "done"
    /\ UNCHANGED <<apiKey, req, gwCalls, calls, route, inflight, prof>>

ConfirmNext ==
    \/ ConfirmReject \/ ConfirmPromptThrows \/ ConfirmNoKey \/ ConfirmAwait
    \/ ConfirmGatewayThrows \/ ConfirmReturns

\* one request to any of the three routes
ServerNext == TipsNext \/ ConfirmNext \/ Next

ServerSpec == Init /\ [][ServerNext]_vars

----------------------------------------------------------------------------
(* Requests handled concurrently.  Each call of a handler has its own      *)
(* locals (the destructured body, data, the response object); the module   *)
(* holds no variable a handler writes.  A call runs from the request to    *)
(* its await in one step and from the gateway's result to the response in  *)
(* another; calls of different requests interleave between the two.        *)

MaxClients == 2

Clients == 1..MaxClients

\* res.status(code).json({ error }) of the route
ErrorFor(rt, code, msg) ==
    IF rt = "/plan" THEN ErrorRes(code, msg) ELSE StageError(code, msg)

\* the validation of the route
ValidationErrorFor(rt, b) ==
    CASE rt = "/tips" -> TipsValidationError(b)
      [] rt = "/confirm" -> ConfirmValidationError(b)
      [] rt = "/plan" -> ValidationError(b)

\* the handler from the request to its await: [pc, res, gwCalls]
BeforeAwait(rt, b, key) ==
    IF ValidationErrorFor(rt, b) # ""
    THEN [pc |-> "done", res |-> ErrorFor(rt, 400, ValidationErrorFor(rt, b)), gwCalls |-> 0]
    ELSE IF profileBlockThrows(b.profile)
    THEN [pc |-> "done", res |-> ErrorFor(rt, 500, "TypeError"), gwCalls |-> 0]
    ELSE IF mustEnvThrows(key)
    THEN [pc |-> "done", res |-> ErrorFor(rt, 500, "Missing OPENAI_API_KEY"), gwCalls |-> 0]
    ELSE [pc |-> "awaiting", res |-> NoRes, gwCalls |-> 1]

\* the handler from the gateway's result to the response
AfterAwait(rt, b, u) ==
    CASE rt = "/plan" ->
            IF openaiJsonObjectThrows(u) THEN ErrorRes(500, u.kind)
            ELSE Enforce(safeText(b.selected_issue_title), RoundOf(b.round), u.data)
      [] rt = "/tips" ->
            IF openaiJsonThrows(u) THEN StageError(500, u.kind)
            ELSE IF EnforceIssuesThrows(u.data) THEN StageError(500, "TypeError")
            ELSE StageJson(EnforceIssues(u.data))
      [] rt = "/confirm" ->
            IF openaiJsonThrows(u) THEN StageError(500, u.kind)
            ELSE StageJson(u.data)

\* locals kept in one module-level variable, which the latest call of the
\* first client overwrites
Locals_Shared(c) == IF inflight[1].pc = "idle" THEN inflight[c] ELSE inflight[1]

\* the locals of the call handling request c
Locals(c) == inflight[c]

(* Inputs of the concurrent requests *)

ConcBodies(rt) ==
    IF rt = "/plan"
    THEN [symptoms : {Str(<<SP>>), Str(<<SP, "vomiting since this morning", SP>>)},
          selected_issue_title : {Str(<<SP, "Upset stomach (possible)">>),
                                  Str(<<"Itchy skin">>)},
          round : {RNum(1), RNum(2)},
          profile : {Undef}]
    ELSE [symptoms : {Str(<<SP, "vomiting since this morning", SP>>)},
          selected_issue_title : {Undef}, round : {RUndef}, profile : {Undef}]

ConcUpstreams(rt) ==
    IF rt = "/plan"
    THEN {[kind |-> "http_error", data |-> Bare("null")],
          [kind |-> "ok",
           data |-> PlanData(Str(<<"PLAN">>), Str(<<"HOME">>),
                             <<Str(<<SP, "Rest and watch", SP>>), Undef>>, AllGood)],
          [kind |-> "ok",
           data |-> NeedMoreInfoData(Undef, <<Undef, Undef>>, AllGood,
                        QArr(<<Question(Str(<<"q1">>), Str(<<"Any blood?">>),
                                        Str(<<"yes_no">>), Arr(<<>>))>>),
                        Str(<<SP, "Timing is unclear", SP>>),
                        Str(<<"Another issue">>))]}
    ELSE {[kind |-> "http_error", data |-> TipsBare("null")],
          [kind |-> "ok", data |-> TipsData(IssuesRanked(NumRanks(<<2, 1, 3>>)))]}

(* The calls *)

ConcInit ==
    /\ apiKey \in BOOLEAN
    /\ pc = "idle"
    /\ req = NoReq
    /\ up = NoUp
    /\ res = NoRes
    /\ gwCalls = 0
    /\ calls = 0
    /\ route = ""
    /\ inflight = [c \in Clients |->
                      [route |-> "", pc |-> "idle", req |-> NoReq, up |-> NoUp,
                       res |-> NoRes, gwCalls |-> 0]]
    /\ prof = NoProf

\* request c arrives and its handler runs to the await, or to a response
\* sent before it
Receive(c) ==
    /\ inflight[c].pc = "idle"
    /\ \E rt \in {"/tips", "/plan"} : \E b \in ConcBodies(rt) :
          inflight' = [inflight EXCEPT ![c] =
              [route |-> rt, pc |-> BeforeAwait(rt, b, apiKey).pc, req |-> b,
               up |-> NoUp, res |-> BeforeAwait(rt, b, apiKey).res,
               gwCalls |-> BeforeAwait(rt, b, apiKey).gwCalls]]
    /\ UNCHANGED <<apiKey, pc, req, up, res, gwCalls, calls, route, prof>>

\* the gateway call of request c resolves and its handler runs to the
\* response
Resolve(c) ==
    /\ inflight[c].pc = "awaiting"
    /\ \E u \in ConcUpstreams(inflight[c].route) :
          inflight' = [inflight EXCEPT ![c] =
              [inflight[c] EXCEPT
                  !.pc = "done", !.up = u,
                  !.res = AfterAwait(inflight[c].route, Locals(c).req, u)]]
    /\ UNCHANGED <<apiKey, pc, req, up, res, gwCalls, calls, route, prof>>

ConcNext == \E c \in Clients : Receive(c) \/ Resolve(c)

ConcSpec == ConcInit /\ [][ConcNext]_vars

----------------------------------------------------------------------------
(* The Profile Normalizer: toInt, clamp, normalizeProfile, formatPetAge,   *)
(* profileBlock.  An age or weight property is a value [t, n, s] (as       *)
(* round is); an integer or null result is [nul, n]; a rendered text is    *)
(* the sequence of its words.                                              *)

AgeNull == [nul |-> TRUE, n |-> 0]

AgeInt(n) == [nul |-> FALSE, n |-> n]

\* parseInt(text, 10) for the texts the model uses: leading whitespace is
\* skipped, then an optional sign and digits are read; [nan, n]
ParseIntText(s) ==
    LET x == TrimLeft(s) IN
    IF x = <<>> THEN [nan |-> TRUE, n |-> 0]
    ELSE CASE Head(x) = "7" -> [nan |-> FALSE, n |-> 7]
           [] Head(x) = "12" -> [nan |-> FALSE, n |-> 12]
           [] Head(x) = "-3" -> [nan |-> FALSE, n |-> -3]
           [] Head(x) = "12abc" -> [nan |-> FALSE, n |-> 12]
           [] OTHER -> [nan |-> TRUE, n |-> 0]

\* parseInt(v, 10): v is turned into a string first
ParseInt(v) ==
    CASE v.t = "num" -> [nan |-> FALSE, n |-> v.n]
      [] v.t = "str" -> ParseIntText(v.s)
      [] OTHER -> [nan |-> TRUE, n |-> 0]

\* toInt(v, null)
toInt(v) == IF ParseInt(v).nan THEN AgeNull ELSE AgeInt(ParseInt(v).n)

\* clamp that returns its argument
clamp_Identity(n, min, max) == n

clamp(n, min, max) ==
    IF n.nul THEN n
    ELSE AgeInt(IF n.n > max THEN max ELSE IF n.n < min THEN min ELSE n.n)

MaxYears == 50

MaxMonths == 11

\* a ?? b
Nullish(v) == v.t \in {"undef", "null"}

normalizeProfile(p) ==
    [petName |-> safeText(p.petName),
     species |-> safeText(p.species),
     breed |-> safeText(p.breed),
     petGender |-> safeText(p.petGender),
     ageYears |-> clamp(toInt(IF Nullish(p.ageYears) THEN p.age ELSE p.ageYears),
                        0, MaxYears),
     ageMonths |-> clamp(toInt(p.ageMonths), 0, MaxMonths),
     weightLb |-> IF Nullish(p.weightLb) THEN RStr(<<"Unknown">>) ELSE p.weightLb,
     city |-> safeText(p.city),
     country |-> safeText(p.country)]

\* `${y}` for a number or null
AgeText(v) == IF v.nul THEN "null" ELSE ToString(v.n)

\* y > 0: null compares as 0
Positive(v) == ~v.nul /\ v.n > 0

formatPetAge(y, m) ==
    IF y.nul /\ m.nul THEN <<"Unknown">>
    ELSE IF Positive(y) /\ Positive(m) THEN <<AgeText(y), "years", AgeText(m), "months">>
    ELSE IF Positive(y) THEN <<AgeText(y), "years">>
    ELSE <<AgeText(m), "months">>

\* text || "Unknown"
OrUnknown(s) == IF s # <<>> THEN s ELSE <<"Unknown">>

\* `${prof.weightLb}`
WeightText(v) ==
    CASE v.t = "num" -> <<ToString(v.n)>>
      [] v.t = "str" -> v.s
      [] v.t = "bool" -> IF v.n = 1 THEN <<"true">> ELSE <<"false">>

\* the lines of profileBlock, each without its label
profileBlock(p) ==
    [petName |-> OrUnknown(normalizeProfile(p).petName),
     species |-> OrUnknown(normalizeProfile(p).species),
     breed |-> OrUnknown(normalizeProfile(p).breed),
     sex |-> OrUnknown(normalizeProfile(p).petGender),
     age |-> formatPetAge(normalizeProfile(p).ageYears, normalizeProfile(p).ageMonths),
     weight |-> WeightText(normalizeProfile(p).weightLb),
     city |-> OrUnknown(normalizeProfile(p).city),
     country |-> OrUnknown(normalizeProfile(p).country)]

(* Inputs of the normalizer *)

\* a profile with a name and a city and nothing else
BaseProfile ==
    [petName |-> Str(<<SP, "Rex", SP>>), species |-> Str(<<"dog">>),
     breed |-> Undef, petGender |-> Undef,
     city |-> Str(<<"Hanoi">>), country |-> Str(<<SP>>),
     ageYears |-> RUndef, age |-> RUndef, ageMonths |-> RUndef,
     weightLb |-> RUndef,
     age_years |-> RUndef, age_months |-> RUndef, weight_lb |-> RUndef]

\* absent, null, a boolean, texts, and the integers around 0 and around
\* each maximum
AgeValues ==
    {RUndef, RNull, RBool(TRUE), RStr(<<>>), RStr(<<"abc">>), RStr(<<"7">>),
     RStr(<<SP, "12">>), RStr(<<"-3">>)}
    \cup {RNum(n) : n \in (-2..2) \cup ((MaxMonths - 1)..(MaxMonths + 1))
                               \cup ((MaxYears - 1)..(MaxYears + 1))}

WeightValues == {RUndef, RNum(12), RStr(<<"12.5">>)}

\* profiles with the camelCase properties, and with the snake-case ones
ProfileInputs ==
    {[BaseProfile EXCEPT !.ageYears = y, !.ageMonths = m, !.age = a, !.weightLb = w] :
        y \in AgeValues, m \in AgeValues, a \in {RUndef, RNum(4)}, w \in WeightValues}
    \cup {[BaseProfile EXCEPT !.age_years = y, !.age_months = m, !.weight_lb = w] :
             y \in AgeValues, m \in AgeValues, w \in WeightValues}

(* The normalizer applied to one profile *)

ProfileInit ==
    /\ apiKey = TRUE
    /\ pc = "idle"
    /\ req = NoReq
    /\ up = NoUp
    /\ res = NoRes
    /\ gwCalls = 0
    /\ calls = 0
    /\ route = ""
    /\ inflight = <<>>
    /\ prof \in {[pc |-> "in", p |-> x, n |-> <<>>, block |-> <<>>] : x \in ProfileInputs}

\* profileBlock(profile)
Render ==
    /\ prof.pc = "in"
    /\ prof' = [pc |-> "out", p |-> prof.p, n |-> normalizeProfile(prof.p),
                block |-> profileBlock(prof.p)]
    /\ UNCHANGED <<apiKey, pc, req, up, res, gwCalls, calls, route, inflight>>

ProfileSpec == ProfileInit /\ [][Render]_vars

----------------------------------------------------------------------------
(* Vocabulary of the properties *)

Returned == pc = "done" /\ up.kind = "ok"

Round == RoundOf(req.round).n

Outcome == up.data

UrgencyBuckets == { <<"HOME">>, <<"MONITOR_24H">>, <<"VET_NOW">> }

\* a string that is empty or only whitespace
Blank(s) == \A i \in 1..Len(s) : s[i] = SP

\* a string without its leading and trailing whitespace
Strip(s) ==
    IF Blank(s) THEN <<>>
    ELSE LET lo == CHOOSE i \in 1..Len(s) : s[i] # SP /\ \A j \in 1..(i - 1) : s[j] = SP
             hi == CHOOSE i \in 1..Len(s) : s[i] # SP /\ \A j \in (i + 1)..Len(s) : s[j] = SP
         IN  SubSeq(s, lo, hi)

\* a text property the generator supplied: a string that is not blank
TextSupplied(v) == v.t = "str" /\ ~Blank(v.s)

\* an array item as text
ItemAsText(x) == IF x.t = "null" THEN <<"null">> ELSE x.s

\* the non-blank items of an array, each stripped, in order
RECURSIVE Kept(_)
Kept(items) ==
    IF items = <<>> THEN <<>>
    ELSE (IF Blank(ItemAsText(Head(items))) THEN <<>>
          ELSE <<Strip(ItemAsText(Head(items)))>>) \o Kept(Tail(items))

\* what a list property of the outcome holds, a bare string read as one item
ListKept(v) ==
    IF v.t = "arr" THEN Kept(v.a)
    ELSE IF TextSupplied(v) THEN <<Strip(v.s)>>
    ELSE <<>>

ListSupplied(v) == ListKept(v) # <<>>

\* an urgency that names one of the three buckets, in any case and padding
Recognised(u) == u.t = "str" /\ ToUpperCase(Strip(u.s)) \in UrgencyBuckets

\* the default table for an outcome: its recognised urgency's, else MONITOR_24H's
TableFor(d) ==
    IF Recognised(d.urgency) /\ ToUpperCase(Strip(d.urgency.s)) = <<"VET_NOW">> THEN VetNowTable
    ELSE IF Recognised(d.urgency) /\ ToUpperCase(Strip(d.urgency.s)) = <<"HOME">> THEN HomeTable
    ELSE MonitorTable

MinItems(f) == IF f \in {"why", "avoid"} THEN 2 ELSE 3

MaxItems(f) == IF f \in {"why", "avoid"} THEN 4 ELSE 6

\* a well-formed PLAN: the result type, a bucket, every required field
\* present with at least its minimum count
WellFormedPlan(d) ==
    /\ d.result_type = Str(<<"PLAN">>)
    /\ d.urgency.t = "str" /\ d.urgency.s \in UrgencyBuckets
    /\ TextSupplied(d.headline)
    /\ TextSupplied(d.disclaimer)
    /\ \A f \in ListFields : d[f].t = "arr" /\ Len(Kept(d[f].a)) >= MinItems(f)

\* the response is a PLAN healed field by field from outcome d
HealedFieldwise(d) ==
    /\ res.status = 200
    /\ res.result_type = "PLAN"
    /\ res.headline = IF TextSupplied(d.headline)
                      THEN Strip(d.headline.s) ELSE TableFor(d).headline
    /\ res.disclaimer = IF TextSupplied(d.disclaimer)
                        THEN Strip(d.disclaimer.s) ELSE DefaultDisclaimer
    /\ \A f \in ListFields :
          res[f] = IF ListSupplied(d[f]) THEN ListKept(d[f]) ELSE TableFor(d)[f]

\* the one fixed safe-default PLAN
SafeDefaultPlan ==
    [NoRes EXCEPT
        !.status = 200, !.result_type = "PLAN", !.urgency = <<"MONITOR_24H">>,
        !.headline = MonitorTable.headline, !.why = MonitorTable.why,
        !.do_now = MonitorTable.do_now, !.avoid = MonitorTable.avoid,
        !.red_flags = MonitorTable.red_flags, !.disclaimer = DefaultDisclaimer]

----------------------------------------------------------------------------
(* C1: whatever the generator returns to a Plan call with round = 2, the   *)
(* response is a PLAN; NEED_MORE_INFO is never returned at round 2.        *)
C1_Round2ReturnsPlan ==
    (Returned /\ Round = 2) => (res.status = 200 /\ res.result_type = "PLAN")

\* round 2, the generator asked for more information with usable questions
C1_Witness ==
    /\ Returned /\ Round = 2
    /\ Outcome.result_type = Str(<<"NEED_MORE_INFO">>)
    /\ Outcome.questions.t = "arr" /\ Len(Outcome.questions.q) > 0
    /\ res.result_type = "PLAN"

(* C2: a conversation that follows the protocol ends with a PLAN after at  *)
(* most two Plan calls, also when the upstream call fails; no third round  *)
(* is requested.                                                           *)
C2_ConversationEndsInPlan ==
    /\ calls <= 2
    /\ Round <= 2
    /\ (pc = "done" /\ ~(res.result_type = "NEED_MORE_INFO" /\ calls < 2))
          => res.result_type = "PLAN"

GatewayFailed ==
    /\ pc = "done"
    /\ ValidationError(req) = ""
    /\ req.profile # Null
    /\ (up.kind \in UpstreamFailures \/ ~apiKey)

(* C4: a valid Plan call with round = 2 whose gateway call fails is        *)
(* answered with the safe-default PLAN (urgency MONITOR_24H), not an       *)
(* error.                                                                  *)
C4_GatewayFailureYieldsSafePlan ==
    (GatewayFailed /\ Round = 2) => res = SafeDefaultPlan

(* C5: the urgency of every outcome a Plan call with round = 2 returns is  *)
(* HOME, MONITOR_24H or VET_NOW.                                           *)
C5_Round2UrgencyInBuckets ==
    (pc = "done" /\ res.status = 200 /\ Round = 2) => res.urgency \in UrgencyBuckets

(* C6: a missing or unrecognised urgency becomes MONITOR_24H before the    *)
(* table is chosen: the urgency returned and the table used for healing    *)
(* are both MONITOR_24H.                                                   *)
C6_UnrecognisedUrgencyIsMonitor ==
    (Returned /\ res.result_type = "PLAN" /\ ~Recognised(Outcome.urgency))
        => /\ res.urgency = <<"MONITOR_24H">>
           /\ ~TextSupplied(Outcome.headline) => res.headline = MonitorTable.headline
           /\ \A f \in ListFields : ~ListSupplied(Outcome[f]) => res[f] = MonitorTable[f]

(* C7: every PLAN returned at round 2 has why, do_now, avoid and red_flags *)
(* each non-empty.                                                         *)
C7_Round2ListsNonEmpty ==
    (pc = "done" /\ Round = 2 /\ res.result_type = "PLAN")
        => \A f \in ListFields : Len(res[f]) > 0

\* round 2, every list of the outcome an array of blank strings
C7_Witness ==
    /\ Returned /\ Round = 2 /\ res.result_type = "PLAN"
    /\ \A f \in ListFields : Outcome[f] = Arr(<<IStr(<<SP>>), IStr(<<>>)>>)
    /\ \A f \in ListFields : Len(res[f]) > 0

(* C8: every PLAN the Plan stage returns has why 2..4, do_now 3..6,        *)
(* avoid 2..4 and red_flags 3..6 items.                                    *)
C8_PlanCountBounds ==
    (pc = "done" /\ res.result_type = "PLAN")
        => \A f \in ListFields : Len(res[f]) >= MinItems(f) /\ Len(res[f]) <= MaxItems(f)

\* the texts of an array's items as the generator wrote them
RawItems(v) == [i \in 1..Len(v.a) |-> ItemAsText(v.a[i])]

(* C9 as stated: at round 1 a PLAN outcome with fields missing or empty    *)
(* is answered with a PLAN whose missing fields come from the default      *)
(* table of the outcome's urgency and whose supplied fields are the        *)
(* generator's, verbatim.                                                  *)
C9_SuppliedFieldsVerbatim ==
    (Returned /\ Round = 1 /\ Outcome.result_type = Str(<<"PLAN">>))
        => /\ res.status = 200 /\ res.result_type = "PLAN"
           /\ res.headline = IF TextSupplied(Outcome.headline)
                             THEN Outcome.headline.s ELSE TableFor(Outcome).headline
           /\ res.disclaimer = IF TextSupplied(Outcome.disclaimer)
                               THEN Outcome.disclaimer.s ELSE DefaultDisclaimer
           /\ \A f \in ListFields :
                 res[f] = IF ~ListSupplied(Outcome[f]) THEN TableFor(Outcome)[f]
                          ELSE IF Outcome[f].t = "arr" THEN RawItems(Outcome[f])
                          ELSE <<Outcome[f].s>>

(* C9 as amended: at round 1 a PLAN outcome with fields missing or empty   *)
(* is answered with a PLAN, never an error; each missing or empty field    *)
(* is filled from the default table of the outcome's urgency (MONITOR_24H's*)
(* when it is missing or unrecognised; the fixed disclaimer), and each     *)
(* supplied field is returned stripped of surrounding whitespace, a list   *)
(* as its non-blank items in order, each as text and stripped.             *)
C9_Round1PlanHealedFieldwise ==
    (Returned /\ Round = 1 /\ Outcome.result_type = Str(<<"PLAN">>))
        => HealedFieldwise(Outcome)

\* round 1, a HOME plan without avoid, its padded headline kept stripped
C9_Witness ==
    /\ Returned /\ Round = 1 /\ Outcome.result_type = Str(<<"PLAN">>)
    /\ Outcome.urgency = Str(<<"HOME">>)
    /\ Outcome.avoid = Undef /\ res.avoid = HomeTable.avoid
    /\ Outcome.headline = Str(<<SP, "Rest and watch", SP>>)
    /\ res.headline = <<"Rest and watch">>
    /\ res.why = <<<<"w1">>, <<"w2">>>>

\* 1 to 3 questions, each an object with a non-blank id and text, a known
\* type and an array of string options
WellFormedQuestions(qv) ==
    /\ qv.t = "arr"
    /\ Len(qv.q) >= 1 /\ Len(qv.q) <= 3
    /\ \A i \in 1..Len(qv.q) :
          /\ qv.q[i].obj
          /\ TextSupplied(qv.q[i].id) /\ TextSupplied(qv.q[i].text)
          /\ qv.q[i].type.t = "str" /\ qv.q[i].type.s \in QuestionTypes
          /\ qv.q[i].options.t = "arr"
          /\ \A j \in 1..Len(qv.q[i].options.a) : qv.q[i].options.a[j].t = "str"

\* round 1, a NEED_MORE_INFO outcome with well-formed questions
WellFormedNeedMoreInfo ==
    /\ Returned /\ Round = 1
    /\ Outcome.result_type = Str(<<"NEED_MORE_INFO">>)
    /\ WellFormedQuestions(Outcome.questions)

(* C10 as stated: at round 1 a NEED_MORE_INFO outcome with 1 to 3          *)
(* well-formed questions is passed through unchanged: its                  *)
(* selected_issue_title, reason and questions are exactly the generator's. *)
C10_PassedThroughUnchanged ==
    (/\ WellFormedNeedMoreInfo
     /\ Outcome.selected_issue_title.t = "str" /\ Outcome.reason.t = "str")
        => /\ res.result_type = "NEED_MORE_INFO"
           /\ res.selected_issue_title = Outcome.selected_issue_title.s
           /\ res.reason = Outcome.reason.s
           /\ Len(res.questions) = Len(Outcome.questions.q)
           /\ \A i \in 1..Len(res.questions) :
                 /\ res.questions[i].id = Outcome.questions.q[i].id.s
                 /\ res.questions[i].text = Outcome.questions.q[i].text.s
                 /\ res.questions[i].type = Outcome.questions.q[i].type.s
                 /\ res.questions[i].options = RawItems(Outcome.questions.q[i].options)

(* C10 as amended: at round 1 a NEED_MORE_INFO outcome with 1 to 3         *)
(* well-formed questions is answered with NEED_MORE_INFO carrying the      *)
(* generator's questions in their order, each with its type unchanged and  *)
(* its id, text and options stripped of surrounding whitespace (blank      *)
(* options dropped); reason is the generator's stripped reason, or the     *)
(* fixed default when that is blank or not a string; selected_issue_title  *)
(* is the caller's stripped selected_issue_title, not the generator's.     *)
C10_NeedMoreInfoNormalized ==
    WellFormedNeedMoreInfo
        => /\ res.status = 200 /\ res.result_type = "NEED_MORE_INFO"
           /\ res.selected_issue_title = Strip(req.selected_issue_title.s)
           /\ res.reason = IF TextSupplied(Outcome.reason)
                           THEN Strip(Outcome.reason.s) ELSE DefaultReason
           /\ Len(res.questions) = Len(Outcome.questions.q)
           /\ \A i \in 1..Len(res.questions) :
                 /\ res.questions[i].id = Strip(Outcome.questions.q[i].id.s)
                 /\ res.questions[i].text = Strip(Outcome.questions.q[i].text.s)
                 /\ res.questions[i].type = Outcome.questions.q[i].type.s
                 /\ res.questions[i].options = Kept(Outcome.questions.q[i].options.a)

\* round 1, three well-formed questions and a title that is not the caller's
C10_Witness ==
    /\ WellFormedNeedMoreInfo
    /\ Len(Outcome.questions.q) = 3
    /\ Outcome.selected_issue_title = Str(<<"Another issue">>)
    /\ Outcome.reason = Str(<<SP, "Timing is unclear", SP>>)
    /\ res.result_type = "NEED_MORE_INFO"
    /\ res.selected_issue_title = <<"Upset stomach (possible)">>
    /\ res.questions[1].options = <<<<"once">>, <<"often">>>>


----------------------------------------------------------------------------
(* C11: every NEED_MORE_INFO outcome a round-1 Plan call returns has 1 to  *)
(* 3 questions, each with a non-empty id, a non-empty text and a type      *)
(* that is one of yes_no, single_choice, short_text.                       *)
C11_QuestionsSanitized ==
    (pc = "done" /\ Round = 1 /\ res.result_type = "NEED_MORE_INFO")
        => /\ Len(res.questions) >= 1 /\ Len(res.questions) <= 3
           /\ \A i \in 1..Len(res.questions) :
                 /\ ~Blank(res.questions[i].id)
                 /\ ~Blank(res.questions[i].text)
                 /\ res.questions[i].type \in QuestionTypes

\* round 1, four questions returned: a null item, one with no id and an
\* unknown type, one with a blank text and no type; three come back
C11_Witness ==
    /\ Returned /\ Round = 1
    /\ Outcome.result_type = Str(<<"NEED_MORE_INFO">>)
    /\ Outcome.questions.t = "arr" /\ Len(Outcome.questions.q) = 4
    /\ ~Outcome.questions.q[1].obj
    /\ res.result_type = "NEED_MORE_INFO"
    /\ Len(res.questions) = 3
    /\ res.questions[1].id = FallbackId(1)
    /\ res.questions[1].text = DefaultQuestionText
    /\ res.questions[2].type = <<"short_text">>

(* C12: a Plan call whose round is anything other than 1 or 2 (0, 3, a     *)
(* negative number, false, an empty string, a non-numeric string) is       *)
(* answered with a client error and the gateway is not called; only an     *)
(* absent round may stand for round 1.                                     *)
C12_OtherRoundRejected ==
    (/\ pc # "idle"
     /\ safeText(req.symptoms) # <<>> /\ safeText(req.selected_issue_title) # <<>>
     /\ req.round \notin {RUndef, RNum(1), RNum(2)})
        => (pc = "done" /\ res.status = 400 /\ gwCalls = 0)

\* a body whose symptom notes are absent, not a string, empty or only
\* whitespace
NotesMissing == req.symptoms.t # "str" \/ Blank(req.symptoms.s)

(* C13: in each of Tips, Confirm and Plan a request whose symptom notes    *)
(* are absent, not a string, empty or only whitespace is answered with     *)
(* status 400, with the error an empty value gets, and the gateway is      *)
(* never called for it.                                                    *)
C13_MissingNotesRejected ==
    (pc # "idle" /\ NotesMissing)
        => /\ pc = "done"
           /\ res.status = 400 /\ res.error = "Missing symptoms"
           /\ gwCalls = 0 /\ up = NoUp

\* Tips answered 400 to notes of whitespace only
C13_Witness ==
    /\ pc = "done" /\ route = "/tips"
    /\ req.symptoms = Str(<<SP>>)
    /\ res.status = 400 /\ gwCalls = 0

\* a body whose selected-issue reference is absent, empty or only whitespace
TitleMissing ==
    req.selected_issue_title.t # "str" \/ Blank(req.selected_issue_title.s)

(* C14: in Confirm and in Plan a request with non-empty symptom notes but  *)
(* with the selected issue absent, empty or only whitespace is answered    *)
(* with a client error and the gateway is never called for it.             *)
C14_MissingTitleRejected ==
    (/\ pc # "idle" /\ route \in {"/confirm", "/plan"}
     /\ ~NotesMissing /\ TitleMissing)
        => (pc = "done" /\ res.status = 400 /\ gwCalls = 0)

\* a successful Tips response
TipsAnswered == pc = "done" /\ route = "/tips" /\ res.status = 200

\* a successful Tips response that carries an issues array
TipsIssuesAnswered ==
    TipsAnswered /\ res.data.k = "obj" /\ res.data.issues.t = "arr"

\* the issues returned and the issues the generator gave
ResIssues == res.data.issues.q

GenIssues == up.data.issues.q

(* C15: every successful Tips response has between 3 and 5 issues,         *)
(* whatever number of issues the generator returns.                        *)
C15_IssueCountBounds ==
    (TipsAnswered /\ up.data.k = "obj" /\ up.data.issues.t = "arr")
        => (Len(ResIssues) >= 3 /\ Len(ResIssues) <= 5)

(* C16: in every successful Tips response with N issues the issue at       *)
(* array position i (1-based) has rank i, whatever ranks the generator     *)
(* returned.                                                               *)
C16_RanksArePositions ==
    TipsIssuesAnswered
        => \A i \in 1..Len(ResIssues) : ResIssues[i].rank = RNum(i)

\* the generator returned a duplicate rank and a missing one; the response
\* is ranked 1, 2, 3
C16_Witness ==
    /\ TipsIssuesAnswered
    /\ Len(GenIssues) = 3
    /\ GenIssues[1].rank = RNum(2) /\ GenIssues[2].rank = RNum(2)
    /\ GenIssues[3].rank = RUndef
    /\ Len(ResIssues) = 3
    /\ ResIssues[3].rank = RNum(3)

\* the rank the generator gave the issue with this id
GenRankOf(id) ==
    GenIssues[CHOOSE i \in 1..Len(GenIssues) : GenIssues[i].id = id].rank.n

\* every issue the generator returned is an object with a number as rank
GenRanksNumeric ==
    \A i \in 1..Len(GenIssues) : GenIssues[i].k = "obj" /\ GenIssues[i].rank.t = "num"

(* C17: the issues of a Tips response are ordered by the generator's rank  *)
(* ascending, for every rank value including 0 and negative numbers, and   *)
(* when the generator returns more than 5 issues the ones kept are those   *)
(* with the lowest returned ranks.                                         *)
C17_OrderedByReturnedRank ==
    (TipsIssuesAnswered /\ GenRanksNumeric)
        => /\ \A i, j \in 1..Len(ResIssues) :
                 i < j => GenRankOf(ResIssues[i].id) <= GenRankOf(ResIssues[j].id)
           /\ \A g \in 1..Len(GenIssues) :
                 (\A i \in 1..Len(ResIssues) : ResIssues[i].id # GenIssues[g].id)
                    => \A i \in 1..Len(ResIssues) :
                          GenRankOf(ResIssues[i].id) <= GenIssues[g].rank.n

\* the generator's output could not be parsed: the text is not JSON, or the
\* envelope carries no output text
OutputUnparseable == up.kind \in {"bad_output", "no_output_text"}

(* C18: in the Plan stage unparseable generator output is healed into a    *)
(* well-formed PLAN from the default-content tables; such a Plan call      *)
(* never returns an error response.                                        *)
C18_UnparseableOutputHealed ==
    (pc = "done" /\ route = "/plan" /\ OutputUnparseable)
        => (res.status = 200 /\ res.result_type = "PLAN" /\ res.error = "")

\* the gateway call of a Tips or Confirm request failed: a transport
\* error, a non-OK status, an unparseable envelope or output
StageGatewayFailed ==
    /\ pc = "done" /\ route \in {"/tips", "/confirm"}
    /\ up.kind \in UpstreamFailures

(* C19: in Tips and Confirm a gateway failure always yields a 5xx          *)
(* response that carries no issues and no questions: nothing is returned   *)
(* in place of the generator's content.                                    *)
C19_FailureIsServiceError ==
    StageGatewayFailed
        => /\ res.status >= 500 /\ res.status <= 599
           /\ res.error # ""
           /\ res.data = NoBody

\* Confirm answered 500 to a non-OK upstream status
C19_Witness ==
    /\ StageGatewayFailed /\ route = "/confirm"
    /\ up.kind = "http_error"
    /\ res.status = 500

\* the request passes the validation of its stage: non-blank notes, for
\* Confirm and Plan a non-blank selected issue, for Plan a round that is
\* absent, 1 or 2
PassesValidation ==
    /\ ~NotesMissing
    /\ route \in {"/confirm", "/plan"} => ~TitleMissing
    /\ route = "/plan" => req.round \in {RUndef, RNum(1), RNum(2)}

(* C20 as stated: each request makes at most one outbound call, none      *)
(* after an upstream failure, and a request that passes validation makes   *)
(* exactly one call before its response is sent.                           *)
C20_ExactlyOneCall ==
    /\ gwCalls <= 1
    /\ (pc = "done" /\ PassesValidation) => gwCalls = 1

(* C20 as amended: each request makes at most one outbound call, none      *)
(* after an upstream failure; a request that passes validation makes       *)
(* exactly one call before its response is sent when the API key is        *)
(* configured and its profile is not null, and is answered 500 without     *)
(* any call otherwise; a request that fails validation makes none.         *)
C20_AtMostOneCall ==
    /\ gwCalls <= 1
    /\ (pc = "done" /\ up.kind \in UpstreamFailures) => gwCalls = 1
    /\ (pc = "done" /\ PassesValidation /\ apiKey /\ req.profile # Null)
          => gwCalls = 1
    /\ (pc = "done" /\ PassesValidation /\ (~apiKey \/ req.profile = Null))
          => (gwCalls = 0 /\ res.status = 500)
    /\ (pc = "done" /\ res.status = 400) => gwCalls = 0

\* a Tips request passed validation, its one call failed and the 500 was
\* sent without a second call
C20_Witness ==
    /\ pc = "done" /\ route = "/tips" /\ PassesValidation
    /\ up.kind = "transport_error"
    /\ res.status = 500 /\ gwCalls = 1

\* the response the handler of the route gives to this payload and this
\* gateway result alone
OwnResponse(call) ==
    IF call.up = NoUp THEN BeforeAwait(call.route, call.req, apiKey).res
    ELSE AfterAwait(call.route, call.req, call.up)

(* C21: under any interleaving of concurrently handled requests the        *)
(* response to a request depends only on that request's payload and on     *)
(* the gateway result for that request: it is what the handler gives to    *)
(* them alone, two requests with the same payload and gateway result get   *)
(* the same response, and a NEED_MORE_INFO carries the request's own       *)
(* selected issue.                                                         *)
C21_ResponseDependsOnOwnRequest ==
    \A c \in Clients :
        inflight[c].pc = "done"
            => /\ inflight[c].res = OwnResponse(inflight[c])
               /\ \A d \in Clients :
                     (/\ inflight[d].pc = "done"
                      /\ inflight[d].route = inflight[c].route
                      /\ inflight[d].req = inflight[c].req
                      /\ inflight[d].up = inflight[c].up)
                        => inflight[d].res = inflight[c].res
               /\ (inflight[c].route = "/plan" /\ inflight[c].res.status = 200
                      /\ inflight[c].res.result_type = "NEED_MORE_INFO")
                     => inflight[c].res.selected_issue_title
                            = Strip(inflight[c].req.selected_issue_title.s)

\* two Plan requests for different issues were both answered
\* NEED_MORE_INFO, each with its own issue, while suspended together
C21_Witness ==
    /\ inflight[1].pc = "done" /\ inflight[2].pc = "done"
    /\ inflight[1].route = "/plan" /\ inflight[2].route = "/plan"
    /\ inflight[1].res.result_type = "NEED_MORE_INFO"
    /\ inflight[2].res.result_type = "NEED_MORE_INFO"
    /\ inflight[1].res.selected_issue_title = <<"Upset stomach (possible)">>
    /\ inflight[2].res.selected_issue_title = <<"Itchy skin">>

\* a successful Confirm response to a questions array of the generator
ConfirmAnswered ==
    /\ pc = "done" /\ route = "/confirm" /\ res.status = 200
    /\ up.data.k = "obj" /\ up.data.questions.t = "arr"

(* C22: every successful Confirm response carries between 2 and 4          *)
(* questions, for every questions array the generator can return.          *)
C22_ConfirmQuestionCount ==
    ConfirmAnswered
        => /\ res.data.questions.t = "arr"
           /\ Len(res.data.questions.q) >= 2 /\ Len(res.data.questions.q) <= 4

\* the profile rendered, what it was normalized to and its rendered lines
Rendered == prof.pc = "out"

\* the integer an age value gives: a number, or a text that is an integer
IsInteger(v) ==
    \/ v.t = "num"
    \/ v.t = "str" /\ Strip(v.s) \in { <<"7">>, <<"12">>, <<"-3">> }

IntegerOf(v) ==
    CASE v.t = "num" -> v.n
      [] v.t = "str" /\ Strip(v.s) = <<"7">> -> 7
      [] v.t = "str" /\ Strip(v.s) = <<"12">> -> 12
      [] v.t = "str" /\ Strip(v.s) = <<"-3">> -> -3

\* the years the profile gives: ageYears, or age when ageYears is absent
YearsGiven ==
    IF prof.p.ageYears.t \in {"undef", "null"} THEN prof.p.age ELSE prof.p.ageYears

\* an age value brought into 0..max, absent when it is no integer
ClampedAge(v, max) ==
    IF ~IsInteger(v) THEN AgeNull
    ELSE IF IntegerOf(v) < 0 THEN AgeInt(0)
    ELSE IF IntegerOf(v) > max THEN AgeInt(max)
    ELSE AgeInt(IntegerOf(v))

(* C23: the normalizer brings every integer ageYears into 0..50 and every  *)
(* integer ageMonths into 0..11, an unparseable or absent value stays      *)
(* absent, and the age renders as "Unknown" exactly when both years and    *)
(* months are absent.                                                      *)
C23_AgeClamped ==
    Rendered
        => /\ prof.n.ageYears = ClampedAge(YearsGiven, 50)
           /\ prof.n.ageMonths = ClampedAge(prof.p.ageMonths, 11)
           /\ (prof.block.age = <<"Unknown">>)
                 <=> (prof.n.ageYears.nul /\ prof.n.ageMonths.nul)

\* years above the maximum and negative months, clamped
C23_Witness ==
    /\ Rendered
    /\ prof.p.ageYears = RNum(51) /\ prof.n.ageYears = AgeInt(50)
    /\ prof.p.ageMonths = RNum(-1) /\ prof.n.ageMonths = AgeInt(0)
    /\ prof.block.age = <<"50", "years">>

\* a profile that spells age and weight in snake case only
SnakeOnly ==
    /\ prof.p.ageYears = RUndef /\ prof.p.ageMonths = RUndef
    /\ prof.p.age = RUndef /\ prof.p.weightLb = RUndef
    /\ \/ prof.p.age_years # RUndef \/ prof.p.age_months # RUndef
       \/ prof.p.weight_lb # RUndef

\* the profile giving the same values under the camelCase names
CamelTwin ==
    [prof.p EXCEPT
        !.ageYears = prof.p.age_years, !.ageMonths = prof.p.age_months,
        !.weightLb = prof.p.weight_lb,
        !.age_years = RUndef, !.age_months = RUndef, !.weight_lb = RUndef]

(* C24: a profile giving age_years, age_months or weight_lb is normalized  *)
(* to the same canonical profile and the same rendered block as the        *)
(* profile giving ageYears, ageMonths or weightLb with the same values.    *)
C24_SnakeCaseAccepted ==
    (Rendered /\ SnakeOnly)
        => /\ prof.n = normalizeProfile(CamelTwin)
           /\ prof.block = profileBlock(CamelTwin)

\* the texts an age may render as
AgeRenderings ==
    { <<"Unknown">> }
    \cup { <<ToString(y), "years">> : y \in 0..50 }
    \cup { <<ToString(m), "months">> : m \in 0..11 }
    \cup { <<ToString(y), "years", ToString(m), "months">> : y \in 0..50, m \in 0..11 }

(* C25: the rendered age is always "Unknown", "Y years", "M months" or     *)
(* "Y years M months" with Y in 0..50 and M in 0..11 as numbers; it never  *)
(* contains a rendering of an absent value such as "null".                 *)
C25_AgeRenderingWellFormed ==
    Rendered
        => /\ prof.block.age \in AgeRenderings
           /\ \A i \in 1..Len(prof.block.age) : prof.block.age[i] # "null"

\* round 1, a NEED_MORE_INFO outcome whose questions are absent, not an
\* array, or an empty array
NeedMoreInfoWithoutQuestions ==
    /\ Returned /\ Round = 1
    /\ Outcome.k = "obj"
    /\ Outcome.result_type = Str(<<"NEED_MORE_INFO">>)
    /\ (Outcome.questions.t # "arr" \/ Len(Outcome.questions.q) = 0)

(* C26: at round 1 a NEED_MORE_INFO outcome whose questions are absent,    *)
(* not an array or empty is not answered with NEED_MORE_INFO but with a    *)
(* PLAN healed from the default table of the outcome's urgency             *)
(* (MONITOR_24H's when none is given); no NEED_MORE_INFO response has      *)
(* zero questions.                                                         *)
C26_NoQuestionsFallsToPlan ==
    /\ NeedMoreInfoWithoutQuestions
          => /\ HealedFieldwise(Outcome)
             /\ ~TextSupplied(Outcome.urgency) => res.urgency = <<"MONITOR_24H">>
    /\ (pc = "done" /\ res.result_type = "NEED_MORE_INFO") => Len(res.questions) > 0

\* an outcome NEED_MORE_INFO with an empty questions array, no urgency and
\* no lists, answered with the MONITOR_24H defaults
C26_Witness ==
    /\ NeedMoreInfoWithoutQuestions
    /\ Outcome.questions = QArr(<<>>)
    /\ Outcome.urgency = Undef /\ Outcome.why = Undef
    /\ res.result_type = "PLAN"
    /\ res.urgency = <<"MONITOR_24H">>
    /\ res.why = MonitorTable.why

(* C27: in every NEED_MORE_INFO response of the Plan stage                 *)
(* selected_issue_title is the caller's trimmed selected_issue_title,      *)
(* whatever title the generator returned, and reason is a non-empty        *)
(* string: the generator's trimmed reason, or the fixed default when that  *)
(* is empty or not a string.                                               *)
C27_TitleAndReasonOfNeedMoreInfo ==
    (pc = "done" /\ route = "/plan" /\ res.result_type = "NEED_MORE_INFO")
        => /\ res.selected_issue_title = Strip(req.selected_issue_title.s)
           /\ ~Blank(res.reason)
           /\ res.reason = IF TextSupplied(Outcome.reason)
                           THEN Strip(Outcome.reason.s) ELSE DefaultReason

\* the generator gave another title and a blank reason: the response has
\* the caller's title and the default reason
C27_Witness ==
    /\ pc = "done" /\ route = "/plan" /\ res.result_type = "NEED_MORE_INFO"
    /\ Outcome.selected_issue_title = Str(<<"Another issue">>)
    /\ Outcome.reason = Str(<<SP>>)
    /\ res.selected_issue_title = <<"Upset stomach (possible)">>
    /\ res.reason = DefaultReason

\* the first five elements of the generator's issues
FirstFive == 1..(IF Len(GenIssues) < 5 THEN Len(GenIssues) ELSE 5)

(* C28: Tips enforcement changes only rank and order: the returned issues  *)
(* are the first five elements of the generator's array in some order,     *)
(* each exactly once, with every field other than rank equal to the        *)
(* generator's, and the top-level title, intro and disclaimer are          *)
(* returned unchanged.                                                     *)
C28_OnlyRankAndOrderChange ==
    TipsIssuesAnswered
        => /\ Len(ResIssues) = Cardinality(FirstFive)
           /\ \A g \in FirstFive :
                 Cardinality({i \in 1..Len(ResIssues) :
                                 /\ ResIssues[i].id = GenIssues[g].id
                                 /\ ResIssues[i].title = GenIssues[g].title}) = 1
           /\ \A i \in 1..Len(ResIssues) :
                 \E g \in FirstFive :
                    /\ ResIssues[i].id = GenIssues[g].id
                    /\ ResIssues[i].title = GenIssues[g].title
           /\ res.data.title = up.data.title
           /\ res.data.intro = up.data.intro
           /\ res.data.disclaimer = up.data.disclaimer

\* five issues ranked in reverse, returned in the order of their ranks
C28_Witness ==
    /\ TipsIssuesAnswered
    /\ Len(GenIssues) = 5 /\ GenIssues[1].rank = RNum(5)
    /\ Len(ResIssues) = 5
    /\ ResIssues[1].id = GenIssues[5].id
    /\ ResIssues[5].id = GenIssues[1].id
    /\ ResIssues[5].title = GenIssues[1].title
    /\ res.data.title = Str(<<"Possible issues">>)

=============================================================================
